---- MODULE Spec2Model ----
(***************************************************************************)
(* A model of macbeth-byui/Mandelbrot_Rust (src/src/main.rs): the escape   *)
(* time evaluation of one point, the grid generator, the fan-out/fan-in of *)
(* ten worker threads, the virtual-to-physical transform, zoom, and the    *)
(* event loop of main.                                                     *)
(*                                                                         *)
(* The program computes in f64.  TLC has 32-bit integers only, so an f64   *)
(* is modelled here as an exact dyadic rational  (+/-) man * 2^exp  whose  *)
(* mantissa is a natural number held in limbs, and every arithmetic        *)
(* operation is the exact operation followed by IEEE-754 rounding to 53    *)
(* significant bits, ties to even.  The exponent range is not bounded:     *)
(* the model's inputs stay far inside the normal range of f64, where this  *)
(* agrees bit for bit with the hardware.                                   *)
(***************************************************************************)
EXTENDS Integers, Sequences, FiniteSets, TLC

(***************************************************************************)
(* Natural numbers of any size: little-endian sequences of limbs base      *)
(* 2^15, without leading (most significant) zero limbs; zero is << >>.     *)
(***************************************************************************)
LimbBits == 14 + 1
Limb == 2 ^ LimbBits

LimbAt(a, i) == IF i <= Len(a) THEN a[i] ELSE 0

RECURSIVE BigNorm(_)
BigNorm(a) ==
    IF a = << >> THEN a
    ELSE IF a[Len(a)] = 0 THEN BigNorm(SubSeq(a, 1, Len(a) - 1))
    ELSE a

RECURSIVE BigFromNat(_)
BigFromNat(n) ==
    IF n = 0 THEN << >> ELSE << n % Limb >> \o BigFromNat(n \div Limb)

RECURSIVE BigAddC(_, _, _, _)
BigAddC(a, b, i, c) ==
    IF i > Len(a) /\ i > Len(b)
    THEN (IF c = 0 THEN << >> ELSE << c >>)
    ELSE LET s == LimbAt(a, i) + LimbAt(b, i) + c
         IN  << s % Limb >> \o BigAddC(a, b, i + 1, s \div Limb)

BigAdd(a, b) == BigAddC(a, b, 1, 0)

\* a - b for a >= b
RECURSIVE BigSubC(_, _, _, _)
BigSubC(a, b, i, c) ==
    IF i > Len(a) THEN << >>
    ELSE LET s == a[i] - LimbAt(b, i) - c
         IN  IF s < 0 THEN << s + Limb >> \o BigSubC(a, b, i + 1, 1)
                      ELSE << s >> \o BigSubC(a, b, i + 1, 0)

BigSub(a, b) == BigNorm(BigSubC(a, b, 1, 0))

\* -1, 0, 1 as a < b, a = b, a > b
RECURSIVE BigCmpAt(_, _, _)
BigCmpAt(a, b, i) ==
    IF i = 0 THEN 0
    ELSE IF a[i] < b[i] THEN -1
    ELSE IF a[i] > b[i] THEN 1
    ELSE BigCmpAt(a, b, i - 1)

BigCmp(a, b) ==
    IF Len(a) < Len(b) THEN -1
    ELSE IF Len(a) > Len(b) THEN 1
    ELSE BigCmpAt(a, b, Len(a))

\* a * d for one limb d
RECURSIVE BigMulLimbC(_, _, _, _)
BigMulLimbC(a, d, i, c) ==
    IF i > Len(a)
    THEN (IF c = 0 THEN << >> ELSE << c >>)
    ELSE LET s == a[i] * d + c
         IN  << s % Limb >> \o BigMulLimbC(a, d, i + 1, s \div Limb)

BigMulLimb(a, d) == IF d = 0 THEN << >> ELSE BigMulLimbC(a, d, 1, 0)

Zeros(q) == [i \in 1..q |-> 0]

RECURSIVE BigMulFrom(_, _, _)
BigMulFrom(a, b, j) ==
    IF j > Len(b) THEN << >>
    ELSE LET p == BigMulLimb(a, b[j])
             r == BigMulFrom(a, b, j + 1)
         IN  BigAdd(p, IF r = << >> THEN r ELSE << 0 >> \o r)

BigMul(a, b) == IF a = << >> \/ b = << >> THEN << >> ELSE BigMulFrom(a, b, 1)

\* a * 2^k
BigShl(a, k) ==
    IF a = << >> THEN a
    ELSE Zeros(k \div LimbBits) \o BigMulLimbC(a, 2 ^ (k % LimbBits), 1, 0)

\* floor(a / 2^k)
BigShr(a, k) ==
    LET q == k \div LimbBits
        r == k % LimbBits
        lo == 2 ^ r
        hi == 2 ^ (LimbBits - r)
    IN  IF q >= Len(a) THEN << >>
        ELSE BigNorm([i \in 1..(Len(a) - q) |->
                 (a[i + q] \div lo) + (LimbAt(a, i + q + 1) % lo) * hi])

RECURSIVE LimbBitLen(_)
LimbBitLen(x) == IF x = 0 THEN 0 ELSE 1 + LimbBitLen(x \div 2)

BigBitLen(a) ==
    IF a = << >> THEN 0 ELSE (Len(a) - 1) * LimbBits + LimbBitLen(a[Len(a)])

\* bit k of a (bit 0 is the least significant)
BigBit(a, k) == (LimbAt(a, (k \div LimbBits) + 1) \div (2 ^ (k % LimbBits))) % 2

\* whether the k low bits of a are all zero
BigLowZero(a, k) ==
    LET q == k \div LimbBits
        r == k % LimbBits
    IN  /\ \A i \in 1..q : LimbAt(a, i) = 0
        /\ LimbAt(a, q + 1) % (2 ^ r) = 0

RECURSIVE LimbTZ(_)
LimbTZ(x) == IF x % 2 = 1 THEN 0 ELSE 1 + LimbTZ(x \div 2)

\* the number of trailing zero bits of a /= 0
RECURSIVE BigTZFrom(_, _)
BigTZFrom(a, i) ==
    IF a[i] = 0 THEN LimbBits + BigTZFrom(a, i + 1) ELSE LimbTZ(a[i])

BigTZ(a) == BigTZFrom(a, 1)

\* one quotient digit of long division (Knuth's algorithm D): floor(r / b) for
\* r < b * Limb, b with n limbs and top limb >= Limb / 2.  The estimate from the
\* two top limbs of r is at most 2 too large and is counted down.
RECURSIVE BigDivFix(_, _, _)
BigDivFix(r, b, q) ==
    IF BigCmp(BigMulLimb(b, q), r) > 0 THEN BigDivFix(r, b, q - 1) ELSE q

BigDivDigit(r, b) ==
    IF BigCmp(r, b) < 0 THEN 0
    ELSE LET n   == Len(b)
             est == (LimbAt(r, n + 1) * Limb + r[n]) \div b[n]
         IN  BigDivFix(r, b, IF est > Limb - 1 THEN Limb - 1 ELSE est)

\* long division of the limbs a[i], ..., a[1] with the running remainder r:
\* << quotient limbs, remainder >>
RECURSIVE BigDivLong(_, _, _, _)
BigDivLong(a, b, i, r) ==
    IF i = 0 THEN << << >>, r >>
    ELSE LET r1   == BigNorm(<< a[i] >> \o r)
             q    == BigDivDigit(r1, b)
             rest == BigDivLong(a, b, i - 1, BigSub(r1, BigMulLimb(b, q)))
         IN  << rest[1] \o << q >>, rest[2] >>

\* short division by a one-limb divisor d, from limb i down: << quotient limbs, remainder >>
RECURSIVE BigDivLimbFrom(_, _, _, _)
BigDivLimbFrom(a, d, i, r) ==
    IF i = 0 THEN << << >>, r >>
    ELSE LET t == r * Limb + a[i]
             rest == BigDivLimbFrom(a, d, i - 1, t % d)
         IN  << rest[1] \o << t \div d >>, rest[2] >>

\* << floor(a / b), r >> for b /= 0, where r = << >> iff b divides a
BigDivMod(a, b) ==
    IF Len(b) = 1
    THEN LET qr == BigDivLimbFrom(a, b[1], Len(a), 0)
         IN  << BigNorm(qr[1]), BigFromNat(qr[2]) >>
    ELSE LET s  == LimbBits - LimbBitLen(b[Len(b)])
             an == BigShl(a, s)
             qr == BigDivLong(an, BigShl(b, s), Len(an), << >>)
         IN  << BigNorm(qr[1]), qr[2] >>

(***************************************************************************)
(* f64.  A value is [neg, man, exp] = (+/-) man * 2^exp with man odd, so   *)
(* two values are equal exactly when their records are; zero is FZero      *)
(* (the sign of zero is not kept: the program never divides by zero or     *)
(* looks at it).                                                           *)
(***************************************************************************)
MantBits == 53

FZero == [neg |-> FALSE, man |-> << >>, exp |-> 0]

FIsZero(a) == a.man = << >>

FCanon(neg, m, e) ==
    IF m = << >> THEN FZero
    ELSE LET z == BigTZ(m)
         IN  [neg |-> neg, man |-> BigShr(m, z), exp |-> e + z]

\* (+/-) (m + s) * 2^e, 0 <= s < 1 and s > 0 iff sticky, rounded to MantBits
\* significant bits, ties to even (the IEEE-754 default, which Rust uses)
FRound(neg, m, e, sticky) ==
    LET n == BigBitLen(m)
        k == n - MantBits
    IN  IF k <= 0 THEN FCanon(neg, m, e)
        ELSE LET q    == BigShr(m, k)
                 half == BigBit(m, k - 1) = 1
                 rest == sticky \/ ~BigLowZero(m, k - 1)
                 up   == half /\ (rest \/ BigBit(q, 0) = 1)
             IN  FCanon(neg, IF up THEN BigAdd(q, << 1 >>) ELSE q, e + k)

FNeg(a) == IF FIsZero(a) THEN a ELSE [a EXCEPT !.neg = ~a.neg]

FAdd(a, b) ==
    IF FIsZero(a) THEN b
    ELSE IF FIsZero(b) THEN a
    ELSE LET e  == IF a.exp < b.exp THEN a.exp ELSE b.exp
             ma == BigShl(a.man, a.exp - e)
             mb == BigShl(b.man, b.exp - e)
             c  == BigCmp(ma, mb)
         IN  IF a.neg = b.neg THEN FRound(a.neg, BigAdd(ma, mb), e, FALSE)
             ELSE IF c = 0 THEN FZero
             ELSE IF c > 0 THEN FRound(a.neg, BigSub(ma, mb), e, FALSE)
             ELSE FRound(b.neg, BigSub(mb, ma), e, FALSE)

FSub(a, b) == FAdd(a, FNeg(b))

FMul(a, b) ==
    IF FIsZero(a) \/ FIsZero(b) THEN FZero
    ELSE FRound(a.neg # b.neg, BigMul(a.man, b.man), a.exp + b.exp, FALSE)

\* a / b for b /= 0: at least MantBits + 2 quotient bits, the remainder sticky
FDiv(a, b) ==
    IF FIsZero(a) THEN FZero
    ELSE IF b.man = << 1 >>
    THEN [neg |-> a.neg # b.neg, man |-> a.man, exp |-> a.exp - b.exp]
    ELSE LET d  == MantBits + 2 + BigBitLen(b.man) - BigBitLen(a.man)
             k  == IF d > 0 THEN d ELSE 0
             qr == BigDivMod(BigShl(a.man, k), b.man)
         IN  FRound(a.neg # b.neg, qr[1], a.exp - b.exp - k, qr[2] # << >>)

FSign(a) == IF FIsZero(a) THEN 0 ELSE IF a.neg THEN -1 ELSE 1

\* -1, 0, 1 as a < b, a = b, a > b
FCmp(a, b) ==
    IF FSign(a) # FSign(b) THEN (IF FSign(a) < FSign(b) THEN -1 ELSE 1)
    ELSE IF FSign(a) = 0 THEN 0
    ELSE LET ta == a.exp + BigBitLen(a.man)
             tb == b.exp + BigBitLen(b.man)
             e  == IF a.exp < b.exp THEN a.exp ELSE b.exp
             c  == IF ta < tb THEN -1
                   ELSE IF ta > tb THEN 1
                   ELSE BigCmp(BigShl(a.man, a.exp - e), BigShl(b.man, b.exp - e))
         IN  c * FSign(a)

FLe(a, b) == FCmp(a, b) <= 0
FLt(a, b) == FCmp(a, b) < 0
FGt(a, b) == FCmp(a, b) > 0

\* `n as f64` for an i32 n: exact
FFromInt(n) == FCanon(n < 0, BigFromNat(IF n < 0 THEN -n ELSE n), 0)

\* 2^k as an f64
FPow2(k) == [neg |-> FALSE, man |-> << 1 >>, exp |-> k]

RECURSIVE BigToNat(_)
BigToNat(a) ==
    IF a = << >> THEN 0 ELSE a[1] + Limb * BigToNat(SubSeq(a, 2, Len(a)))

I32Max == 2147483647

\* `a as i32`: truncation toward zero, saturating at the ends of i32
FToI32(a) ==
    IF FIsZero(a) THEN 0
    ELSE IF a.exp + BigBitLen(a.man) > 31
    THEN (IF a.neg THEN (-I32Max) - 1 ELSE I32Max)
    ELSE LET mag == IF a.exp >= 0 THEN BigToNat(BigShl(a.man, a.exp))
                    ELSE BigToNat(BigShr(a.man, -a.exp))
         IN  IF a.neg THEN -mag ELSE mag

(***************************************************************************)
(* The program's constants (main.rs, lines 13 to 21).                      *)
(***************************************************************************)
FRACTAL_ITERATIONS == 255
FRACTAL_ESCAPE == FFromInt(2)
WORKER_THREADS == 10
WINDOW_HEIGHT == 800
WINDOW_WIDTH == 800
INIT_VIRTUAL_GRID_XMIN == FFromInt(-2)
INIT_VIRTUAL_GRID_XMAX == FFromInt(2)
INIT_VIRTUAL_GRID_YMIN == FFromInt(-2)
INIT_VIRTUAL_GRID_YMAX == FFromInt(2)

\* struct VirtualPoint(f64, f64, (u8, u8, u8)): field .0 is p[1], .1 is p[2], .2 is p[3]
VirtualPoint(x, y, color) == << x, y, color >>

\* struct PhysicalPoint(i32, i32, (u8, u8, u8))
PhysicalPoint(x, y, color) == << x, y, color >>

\* Option<VirtualPoint>
None == << "None" >>
Some(p) == << "Some", p >>

\* `n as u8` for an i32 n: the low eight bits
AsU8(n) == n % 256

Min(a, b) == IF a < b THEN a ELSE b

(***************************************************************************)
(* calc_mandelbrot_point, lines 44 to 64.                                  *)
(*                                                                         *)
(* dist = sqrt(x*x + y*y) is only ever compared with FRACTAL_ESCAPE = 2.0. *)
(* sqrt is correctly rounded and monotone, sqrt(4 + 2^-50) rounds to 2.0   *)
(* (4 + 2^-50 is the f64 after 4.0, and its root 2 + 2^-52 - ... lies      *)
(* below the midpoint of 2.0 and the next f64) and sqrt(4 + 2^-49) rounds  *)
(* to 2 + 2^-51 > 2.0, so for every f64 v:  sqrt(v) > 2.0  iff             *)
(* v > 4 + 2^-50.  EscapeSquare is that bound.                             *)
(***************************************************************************)
EscapeSquare == FAdd(FMul(FRACTAL_ESCAPE, FRACTAL_ESCAPE), FPow2(-50))

\* (x * x + y * y).sqrt() > FRACTAL_ESCAPE
DistExceedsEscape(x, y) == FGt(FAdd(FMul(x, x), FMul(y, y)), EscapeSquare)

\* line 50: (prev_x * prev_x) - (prev_y * prev_y) + coord.0
NextX(coord, prev_x, prev_y) ==
    FAdd(FSub(FMul(prev_x, prev_x), FMul(prev_y, prev_y)), coord[1])

\* line 51: (2.0 * (prev_x * prev_y)) + coord.1
NextY(coord, prev_x, prev_y) ==
    FAdd(FMul(FFromInt(2), FMul(prev_x, prev_y)), coord[2])

\* the variables of the loop of lines 48 to 58 as it is entered (lines 45-47)
LoopInit(coord) ==
    [prev_x |-> coord[1], prev_y |-> coord[2], count |-> 0,
     escape_count |-> 0, broke |-> FALSE]

\* the loop is left by the break of line 57 or when 0..FRACTAL_ITERATIONS ends
LoopDone(s) == s.broke \/ s.count >= FRACTAL_ITERATIONS

\* one iteration of the loop body, lines 49 to 58 (x and y are computed once)
LoopStep(coord, s) ==
    CHOOSE r \in { [prev_x |-> x, prev_y |-> y, count |-> s.count + 1,
                    escape_count |-> s.count,
                    broke |-> DistExceedsEscape(x, y)] :
                   x \in {NextX(coord, s.prev_x, s.prev_y)},
                   y \in {NextY(coord, s.prev_x, s.prev_y)} } : TRUE

\* at most n further iterations from s, the first half before the second
RECURSIVE LoopRun(_, _, _)
LoopRun(coord, s, n) ==
    IF LoopDone(s) THEN s
    ELSE IF n = 1 THEN LoopStep(coord, s)
    ELSE CHOOSE r \in { LoopRun(coord, t, n - (n \div 2)) :
                        t \in {LoopRun(coord, s, n \div 2)} } : TRUE

\* the value of escape_count when the loop of lines 48 to 58 is left
EscapeLoop(coord) ==
    LoopRun(coord, LoopInit(coord), FRACTAL_ITERATIONS).escape_count

\* lines 59 to 63 with the upper bound of line 59 off by one
ClassifyUpTo(coord, escape_count) ==
    IF escape_count > 0 /\ escape_count < FRACTAL_ITERATIONS
    THEN Some(VirtualPoint(coord[1], coord[2],
                 << AsU8(Min(255, escape_count * 10)),
                    AsU8(escape_count), AsU8(escape_count) >>))
    ELSE None

\* lines 59 to 63
Classify(coord, escape_count) ==
    IF escape_count > 0 /\ escape_count < FRACTAL_ITERATIONS - 1
    THEN Some(VirtualPoint(coord[1], coord[2],
                 << AsU8(Min(255, escape_count * 10)),
                    AsU8(escape_count), AsU8(escape_count) >>))
    ELSE None

calc_mandelbrot_point(coord) ==
    Classify(coord, EscapeLoop(coord))

(***************************************************************************)
(* Mandelbrot::new, lines 33 to 42.                                        *)
(***************************************************************************)
new ==
    [xmin |-> INIT_VIRTUAL_GRID_XMIN, xmax |-> INIT_VIRTUAL_GRID_XMAX,
     ymin |-> INIT_VIRTUAL_GRID_YMIN, ymax |-> INIT_VIRTUAL_GRID_YMAX,
     width |-> WINDOW_WIDTH, height |-> WINDOW_HEIGHT]

\* zoom with the two ends of each axis exchanged (lines 148 to 151)
zoom_swapped(self, x, y, ratio) ==
    LET virtual_grid_x_size ==
            FMul(FDiv(FSub(self.xmax, self.xmin), FFromInt(2)), ratio)
        virtual_grid_y_size ==
            FMul(FDiv(FSub(self.ymax, self.ymin), FFromInt(2)), ratio)
        virtual_x ==
            FAdd(FMul(FDiv(FFromInt(x), FFromInt(self.width)),
                      FSub(self.xmax, self.xmin)), self.xmin)
        virtual_y ==
            FAdd(FMul(FDiv(FFromInt(y), FFromInt(self.height)),
                      FSub(self.ymax, self.ymin)), self.ymin)
    IN  [self EXCEPT !.xmin = FAdd(virtual_x, virtual_grid_x_size),
                     !.xmax = FSub(virtual_x, virtual_grid_x_size),
                     !.ymin = FAdd(virtual_y, virtual_grid_y_size),
                     !.ymax = FSub(virtual_y, virtual_grid_y_size)]

\* zoom with the extent taken for the half extent (lines 144 and 145
\* without the division by 2.0)
zoom_full_extent(self, x, y, ratio) ==
    LET virtual_grid_x_size == FMul(FSub(self.xmax, self.xmin), ratio)
        virtual_grid_y_size == FMul(FSub(self.ymax, self.ymin), ratio)
        virtual_x ==
            FAdd(FMul(FDiv(FFromInt(x), FFromInt(self.width)),
                      FSub(self.xmax, self.xmin)), self.xmin)
        virtual_y ==
            FAdd(FMul(FDiv(FFromInt(y), FFromInt(self.height)),
                      FSub(self.ymax, self.ymin)), self.ymin)
    IN  [self EXCEPT !.xmin = FSub(virtual_x, virtual_grid_x_size),
                     !.xmax = FAdd(virtual_x, virtual_grid_x_size),
                     !.ymin = FSub(virtual_y, virtual_grid_y_size),
                     !.ymax = FAdd(virtual_y, virtual_grid_y_size)]

(***************************************************************************)
(* zoom, lines 143 to 152: the fields of self after the call.              *)
(***************************************************************************)
zoom(self, x, y, ratio) ==
    LET virtual_grid_x_size ==
            FMul(FDiv(FSub(self.xmax, self.xmin), FFromInt(2)), ratio)
        virtual_grid_y_size ==
            FMul(FDiv(FSub(self.ymax, self.ymin), FFromInt(2)), ratio)
        virtual_x ==
            FAdd(FMul(FDiv(FFromInt(x), FFromInt(self.width)),
                      FSub(self.xmax, self.xmin)), self.xmin)
        virtual_y ==
            FAdd(FMul(FDiv(FFromInt(y), FFromInt(self.height)),
                      FSub(self.ymax, self.ymin)), self.ymin)
    IN  [self EXCEPT !.xmin = FSub(virtual_x, virtual_grid_x_size),
                     !.xmax = FAdd(virtual_x, virtual_grid_x_size),
                     !.ymin = FSub(virtual_y, virtual_grid_y_size),
                     !.ymax = FAdd(virtual_y, virtual_grid_y_size)]

\* the literal 0.8 of line 183: the f64 nearest to 4/5
ZOOM_RATIO == FDiv(FFromInt(4), FFromInt(5))

(***************************************************************************)
(* draw_mandelbrot_init, lines 80 to 97.                                   *)
(*                                                                         *)
(* `while v <= hi { ...; v += delta }` visits v0 = lo, v1 = v0 + delta,    *)
(* ...  AxisChunk is the values visited in at most n trips from v, the     *)
(* first half of the trips before the second; AxisFrom asks for n, 2n, ... *)
(* trips until the loop is left.  The loop is assumed to be left: a delta  *)
(* that no longer changes v is outside the viewports looked at.            *)
(***************************************************************************)
RECURSIVE AxisChunk(_, _, _, _)
AxisChunk(v, hi, delta, n) ==
    IF ~FLe(v, hi) THEN << >>
    ELSE IF n = 1 THEN << v >>
    ELSE CHOOSE r \in
           { IF Len(left) < n \div 2 THEN left
             ELSE left \o AxisChunk(FAdd(left[Len(left)], delta), hi, delta,
                                    n - (n \div 2)) :
             left \in {AxisChunk(v, hi, delta, n \div 2)} } : TRUE

RECURSIVE AxisFrom(_, _, _, _)
AxisFrom(v, hi, delta, n) ==
    CHOOSE r \in
      { IF Len(c) < n THEN c
        ELSE c \o AxisFrom(FAdd(c[Len(c)], delta), hi, delta, 2 * n) :
        c \in {AxisChunk(v, hi, delta, n)} } : TRUE

\* the values a loop variable takes from lo in steps of delta while <= hi
AxisValues(lo, hi, delta) == AxisFrom(lo, hi, delta, 1)

\* draw_mandelbrot_init with the two loops exchanged: all x values for one y
draw_mandelbrot_init_rows(self) ==
    LET delta_x == FDiv(FSub(self.xmax, self.xmin), FFromInt(self.width))
        delta_y == FDiv(FSub(self.ymax, self.ymin), FFromInt(self.height))
    IN  CHOOSE grid \in
          { [k \in 1..(Len(xs) * Len(ys)) |->
                VirtualPoint(xs[((k - 1) % Len(xs)) + 1],
                             ys[((k - 1) \div Len(xs)) + 1], << 0, 0, 0 >>)] :
            xs \in {AxisValues(self.xmin, self.xmax, delta_x)},
            ys \in {AxisValues(self.ymin, self.ymax, delta_y)} } : TRUE

\* the inner loop does not depend on x: every column holds the same y values
draw_mandelbrot_init(self) ==
    LET delta_x == FDiv(FSub(self.xmax, self.xmin), FFromInt(self.width))
        delta_y == FDiv(FSub(self.ymax, self.ymin), FFromInt(self.height))
    IN  CHOOSE grid \in
          { [k \in 1..(Len(xs) * Len(ys)) |->
                VirtualPoint(xs[((k - 1) \div Len(ys)) + 1],
                             ys[((k - 1) % Len(ys)) + 1], << 0, 0, 0 >>)] :
            xs \in {AxisValues(self.xmin, self.xmax, delta_x)},
            ys \in {AxisValues(self.ymin, self.ymax, delta_y)} } : TRUE

\* the number of points draw_mandelbrot_init pushes: the trips of the outer
\* loop times the trips of the inner loop
GridCount(self) ==
    Len(AxisValues(self.xmin, self.xmax,
                   FDiv(FSub(self.xmax, self.xmin), FFromInt(self.width))))
    * Len(AxisValues(self.ymin, self.ymax,
                     FDiv(FSub(self.ymax, self.ymin), FFromInt(self.height))))

\* the size of the first grid of the program, 800 x 800 over [-2, 2] x [-2, 2]
InitialGridCount == GridCount(new)

(***************************************************************************)
(* draw_mandelbrot, lines 133 to 139: one point of the drawing.            *)
(***************************************************************************)
ToPhysical(self, point) ==
    PhysicalPoint(
        FToI32(FMul(FDiv(FSub(point[1], self.xmin),
                         FSub(self.xmax, self.xmin)), FFromInt(self.width))),
        FToI32(FMul(FDiv(FSub(point[2], self.ymin),
                         FSub(self.ymax, self.ymin)), FFromInt(self.height))),
        point[3])

\* the loop of lines 132 to 139
Transform(self, calc_points) ==
    [i \in 1..Len(calc_points) |-> ToPhysical(self, calc_points[i])]

(***************************************************************************)
(* Bounds of the model.  The window is scaled down from 800 x 800 so that  *)
(* a render pass has tens of points instead of 641601; the number of       *)
(* workers and the iteration limit are the program's.                      *)
(***************************************************************************)
ModelWidth == 4
ModelHeight == 4
MaxZooms == 2

\* Mandelbrot::new() for the scaled window
Start == [new EXCEPT !.width = ModelWidth, !.height = ModelHeight]

\* the mouse positions of the Mouse events looked at: a corner and the centre
ClickSet == { << 0, 0 >>, << ModelWidth \div 2, ModelHeight \div 2 >> }

Range(f) == { f[i] : i \in DOMAIN f }

\* the viewports main can reach with at most n mouse presses
RECURSIVE ViewportsWithin(_)
ViewportsWithin(n) ==
    IF n = 0 THEN {Start}
    ELSE CHOOSE r \in
           { V \cup { zoom(v, c[1], c[2], ZOOM_RATIO) : v \in V, c \in ClickSet } :
             V \in {ViewportsWithin(n - 1)} } : TRUE

\* every grid point a render pass of such a viewport hands to a worker
TablePoints ==
    UNION { Range(draw_mandelbrot_init(v)) : v \in ViewportsWithin(MaxZooms) }

\* calc_mandelbrot_point tabulated on those points as pairs << point, value >>,
\* so that a point met in many states is iterated once
CalcTable == { << p, calc_mandelbrot_point(p) >> : p \in TablePoints }

\* line 70: the call of calc_mandelbrot_point from a worker
CalcPoint(point) ==
    IF point \in TablePoints
    THEN (CHOOSE e \in CalcTable : e[1] = point)[2]
    ELSE calc_mandelbrot_point(point)

(***************************************************************************)
(* calc_mandelbrot_worker, lines 66 to 78: the surviving points, in the    *)
(* order of the input.                                                     *)
(***************************************************************************)
calc_mandelbrot_worker(input) ==
    CHOOSE out \in
      { [i \in 1..Len(kept) |-> kept[i][2]] :
        kept \in { SelectSeq([i \in 1..Len(input) |-> CalcPoint(input[i])],
                             LAMBDA r : r # None) } } : TRUE

\* line 104 with the last slice stretched to the end of the input
end_range_to_len(input, block) ==
    IF block + 1 = WORKER_THREADS THEN Len(input)
    ELSE (Len(input) \div WORKER_THREADS) * (block + 1)

\* lines 103 and 104: the bounds of the slice of worker `block`
start_range(input, block) == (Len(input) \div WORKER_THREADS) * block
end_range(input, block) == (Len(input) \div WORKER_THREADS) * (block + 1)

\* lines 105 to 109: points[start_range..end_range]
Subset(input, block) ==
    SubSeq(input, start_range(input, block) + 1, end_range(input, block))

(***************************************************************************)
(* The program as a state machine.                                         *)
(*                                                                         *)
(*   mandelbrot  the Mandelbrot value owned by main                        *)
(*   pc          where the main thread is                                  *)
(*   points      draw_mandelbrot: the grid points (line 128)               *)
(*   threads     draw_mandelbrot_run: one entry per spawned worker, with   *)
(*               the subset moved into it, its state and what it returned  *)
(*   joined      the number of handles the loop of line 118 has joined     *)
(*   results     draw_mandelbrot_run: the merged results (line 117)        *)
(*   drawing     the Vec<PhysicalPoint> draw_mandelbrot returned           *)
(*   canvas      the draw_point calls made on the window since the last    *)
(*               clear                                                     *)
(*   zooms       the number of mouse presses handled                       *)
(*   call        the arguments of the last call of zoom                    *)
(*   cp_coord, cp_loop, cp_exceeded, cp_result                             *)
(*               one call of calc_mandelbrot_point taken iteration by      *)
(*               iteration: its argument, its loop variables, the counts   *)
(*               at which the distance exceeded FRACTAL_ESCAPE, and what   *)
(*               it returned                                               *)
(***************************************************************************)
VARIABLES mandelbrot, pc, points, threads, joined, results, drawing, canvas,
          zooms, call, cp_coord, cp_loop, cp_exceeded, cp_result

vars == << mandelbrot, pc, points, threads, joined, results, drawing, canvas,
           zooms, call, cp_coord, cp_loop, cp_exceeded, cp_result >>

pointVars == << cp_coord, cp_loop, cp_exceeded, cp_result >>
passVars == << points, threads, joined, results >>

NoCall == [x |-> 0, y |-> 0, ratio |-> FZero]
Pending == << "Pending" >>

\* main, lines 158 and 159: the value is built and the first pass starts
Init ==
    /\ mandelbrot = Start
    /\ pc = "init"
    /\ points = << >>
    /\ threads = << >>
    /\ joined = 0
    /\ results = << >>
    /\ drawing = << >>
    /\ canvas = << >>
    /\ zooms = 0
    /\ call = NoCall
    /\ cp_coord = VirtualPoint(FZero, FZero, << 0, 0, 0 >>)
    /\ cp_loop = LoopInit(cp_coord)
    /\ cp_exceeded = {}
    /\ cp_result = Pending

\* draw_mandelbrot, line 128, and the entry of draw_mandelbrot_run, line 101
DrawMandelbrotInit ==
    /\ pc = "init"
    /\ points' = draw_mandelbrot_init(mandelbrot)
    /\ threads' = << >>
    /\ joined' = 0
    /\ results' = << >>
    /\ pc' = "spawn"
    /\ UNCHANGED << mandelbrot, drawing, canvas, zooms, call, pointVars >>

\* one trip of the loop of lines 102 to 115: a subset is copied and moved
\* into a new thread; after the last trip line 117 follows
Spawn ==
    /\ pc = "spawn"
    /\ Len(threads) < WORKER_THREADS
    /\ LET block == Len(threads)
       IN  /\ threads' = Append(threads, [subset |-> Subset(points, block),
                                          state |-> "running",
                                          result |-> << >>])
           /\ pc' = IF block + 1 = WORKER_THREADS THEN "join" ELSE "spawn"
    /\ UNCHANGED << mandelbrot, points, joined, results, drawing, canvas,
                    zooms, call, pointVars >>

\* the closure of lines 110 to 113 runs to its end in thread i (no thread
\* runs on once a panic of the main thread has ended the process)
WorkerFinish(i) ==
    /\ pc # "panicked"
    /\ i \in 1..Len(threads)
    /\ threads[i].state = "running"
    /\ threads' = [threads EXCEPT
                     ![i] = [subset |-> threads[i].subset,
                             state |-> "finished",
                             result |-> calc_mandelbrot_worker(threads[i].subset)]]
    /\ UNCHANGED << mandelbrot, pc, points, joined, results, drawing, canvas,
                    zooms, call, pointVars >>

\* lines 118 to 121 with the result put in front of what was merged so far
JoinPrepend ==
    /\ pc = "join"
    /\ joined < Len(threads)
    /\ threads[joined + 1].state = "finished"
    /\ results' = threads[joined + 1].result \o results
    /\ joined' = joined + 1
    /\ pc' = IF joined + 1 = Len(threads) THEN "transform" ELSE "join"
    /\ UNCHANGED << mandelbrot, points, threads, drawing, canvas, zooms, call,
                    pointVars >>

\* lines 118 to 121 with a join that does not wait for its thread
JoinEarly ==
    /\ pc = "join"
    /\ joined < Len(threads)
    /\ results' = results \o threads[joined + 1].result
    /\ joined' = joined + 1
    /\ pc' = IF joined + 1 = Len(threads) THEN "transform" ELSE "join"
    /\ UNCHANGED << mandelbrot, points, threads, drawing, canvas, zooms, call,
                    pointVars >>

\* one trip of the loop of lines 118 to 121: join blocks until the thread
\* has finished, then its result is appended; after the last trip the
\* function returns (line 124)
Join ==
    /\ pc = "join"
    /\ joined < Len(threads)
    /\ threads[joined + 1].state = "finished"
    /\ results' = results \o threads[joined + 1].result
    /\ joined' = joined + 1
    /\ pc' = IF joined + 1 = Len(threads) THEN "transform" ELSE "join"
    /\ UNCHANGED << mandelbrot, points, threads, drawing, canvas, zooms, call,
                    pointVars >>

\* draw_mandelbrot, lines 131 to 140
TransformPoints ==
    /\ pc = "transform"
    /\ drawing' = Transform(mandelbrot, results)
    /\ pc' = "draw"
    /\ UNCHANGED << mandelbrot, passVars, canvas, zooms, call, pointVars >>

\* main, lines 163 to 168 and 190 to 195: every point is drawn
DrawPoints ==
    /\ pc = "draw"
    /\ canvas' = canvas \o drawing
    /\ pc' = "events"
    /\ UNCHANGED << mandelbrot, passVars, drawing, zooms, call, pointVars >>

\* lines 178 to 183 without lines 187 to 195: the zoom is not followed by a
\* render pass
MousePressNoRender(x, y) ==
    /\ pc = "events"
    /\ zooms < MaxZooms
    /\ mandelbrot' = zoom(mandelbrot, x, y, ZOOM_RATIO)
    /\ call' = [x |-> x, y |-> y, ratio |-> ZOOM_RATIO]
    /\ zooms' = zooms + 1
    /\ UNCHANGED << pc, passVars, drawing, canvas, pointVars >>

\* main, lines 178 to 188: a Mouse event with is_down zooms, the window is
\* cleared and the next pass starts; the Vecs of the last pass are gone
MousePress(x, y) ==
    /\ pc = "events"
    /\ zooms < MaxZooms
    /\ mandelbrot' = zoom(mandelbrot, x, y, ZOOM_RATIO)
    /\ call' = [x |-> x, y |-> y, ratio |-> ZOOM_RATIO]
    /\ zooms' = zooms + 1
    /\ canvas' = << >>
    /\ drawing' = << >>
    /\ points' = << >>
    /\ threads' = << >>
    /\ joined' = 0
    /\ results' = << >>
    /\ pc' = "init"
    /\ UNCHANGED pointVars

\* main, lines 185 to 188: any other event only clears and renders again
OtherEvent ==
    /\ pc = "events"
    /\ canvas' = << >>
    /\ drawing' = << >>
    /\ points' = << >>
    /\ threads' = << >>
    /\ joined' = 0
    /\ results' = << >>
    /\ pc' = "init"
    /\ UNCHANGED << mandelbrot, zooms, call, pointVars >>

\* main, line 173: next_frame returns false and main returns
Quit ==
    /\ pc = "events"
    /\ pc' = "exit"
    /\ UNCHANGED << mandelbrot, passVars, drawing, canvas, zooms, call,
                    pointVars >>

Next ==
    \/ DrawMandelbrotInit
    \/ Spawn
    \/ \E i \in 1..WORKER_THREADS : WorkerFinish(i)
    \/ Join
    \/ TransformPoints
    \/ DrawPoints
    \/ \E c \in ClickSet : MousePress(c[1], c[2])
    \/ OtherEvent
    \/ Quit

Spec == Init /\ [][Next]_vars

(***************************************************************************)
(* Fault injection: a worker panics instead of returning.  Nothing in      *)
(* calc_mandelbrot_worker panics on the inputs main gives it, so this is   *)
(* the failure line 119 (`join().unwrap()`) is written for.                *)
(***************************************************************************)
MaxPanics == 1

Panicked == { j \in 1..Len(threads) : threads[j].state = "panicked" }

\* thread i unwinds; its JoinHandle will yield Err
WorkerPanic(i) ==
    /\ pc # "panicked"
    /\ i \in 1..Len(threads)
    /\ threads[i].state = "running"
    /\ Cardinality(Panicked) < MaxPanics
    /\ threads' = [threads EXCEPT
                     ![i] = [subset |-> threads[i].subset,
                             state |-> "panicked",
                             result |-> << >>]]
    /\ UNCHANGED << mandelbrot, pc, points, joined, results, drawing, canvas,
                    zooms, call, pointVars >>

\* line 119 with the Err of a panicked worker taken for an empty result
JoinSkipPanicked ==
    /\ pc = "join"
    /\ joined < Len(threads)
    /\ threads[joined + 1].state = "panicked"
    /\ joined' = joined + 1
    /\ pc' = IF joined + 1 = Len(threads) THEN "transform" ELSE "join"
    /\ UNCHANGED << mandelbrot, points, threads, results, drawing, canvas,
                    zooms, call, pointVars >>

\* line 119: join returns Err and unwrap panics in the main thread, which
\* ends the process
JoinPanic ==
    /\ pc = "join"
    /\ joined < Len(threads)
    /\ threads[joined + 1].state = "panicked"
    /\ pc' = "panicked"
    /\ UNCHANGED << mandelbrot, passVars, drawing, canvas, zooms, call,
                    pointVars >>

NextFault ==
    \/ DrawMandelbrotInit
    \/ Spawn
    \/ \E i \in 1..WORKER_THREADS : WorkerFinish(i)
    \/ \E i \in 1..WORKER_THREADS : WorkerPanic(i)
    \/ Join
    \/ JoinPanic
    \/ TransformPoints
    \/ DrawPoints
    \/ OtherEvent
    \/ Quit

SpecFault == Init /\ [][NextFault]_vars

(***************************************************************************)
(* draw_mandelbrot_run on its own: called with inputs of several lengths,  *)
(* the leading points of the first grid.                                   *)
(***************************************************************************)
RunLens == { 0, 5, 10, 12, 19, 20, 23 }

RunPool == draw_mandelbrot_init(Start)

InitRun ==
    /\ mandelbrot = Start
    /\ pc = "spawn"
    /\ points \in { SubSeq(RunPool, 1, n) : n \in RunLens }
    /\ threads = << >>
    /\ joined = 0
    /\ results = << >>
    /\ drawing = << >>
    /\ canvas = << >>
    /\ zooms = 0
    /\ call = NoCall
    /\ cp_coord = VirtualPoint(FZero, FZero, << 0, 0, 0 >>)
    /\ cp_loop = LoopInit(cp_coord)
    /\ cp_exceeded = {}
    /\ cp_result = Pending

NextRun ==
    \/ Spawn
    \/ \E i \in 1..WORKER_THREADS : WorkerFinish(i)
    \/ Join

SpecRun == InitRun /\ [][NextRun]_vars

(***************************************************************************)
(* zoom on its own: called on the value new() builds, with positions and   *)
(* ratios main does not use as well as those it does.                      *)
(***************************************************************************)
MaxZoomCalls == 2

ZoomClicks ==
    { << 0, 0 >>, << WINDOW_WIDTH \div 2, WINDOW_HEIGHT \div 2 >>,
      << 123, 700 >>, << WINDOW_WIDTH, WINDOW_HEIGHT >> }

ZoomRatios ==
    { ZOOM_RATIO, FDiv(FFromInt(1), FFromInt(2)), FFromInt(2), FZero,
      FDiv(FFromInt(-1), FFromInt(2)) }

InitZoom ==
    /\ mandelbrot = new
    /\ pc = "zoom"
    /\ points = << >>
    /\ threads = << >>
    /\ joined = 0
    /\ results = << >>
    /\ drawing = << >>
    /\ canvas = << >>
    /\ zooms = 0
    /\ call = NoCall
    /\ cp_coord = VirtualPoint(FZero, FZero, << 0, 0, 0 >>)
    /\ cp_loop = LoopInit(cp_coord)
    /\ cp_exceeded = {}
    /\ cp_result = Pending

ZoomCall(x, y, ratio) ==
    /\ pc = "zoom"
    /\ zooms < MaxZoomCalls
    /\ mandelbrot' = zoom(mandelbrot, x, y, ratio)
    /\ call' = [x |-> x, y |-> y, ratio |-> ratio]
    /\ zooms' = zooms + 1
    /\ UNCHANGED << pc, passVars, drawing, canvas, pointVars >>

NextZoom == \E c \in ZoomClicks, ratio \in ZoomRatios : ZoomCall(c[1], c[2], ratio)

SpecZoom == InitZoom /\ [][NextZoom]_vars

(***************************************************************************)
(* draw_mandelbrot_init on its own: windows of several sizes, over the     *)
(* first viewport and the viewports a few zooms by ZOOM_RATIO lead to.     *)
(***************************************************************************)
MaxGridWidth == 4
MaxGridHeight == 3
MaxGridZooms == 2

InitGrid ==
    /\ mandelbrot \in { [new EXCEPT !.width = w, !.height = h] :
                        w \in 1..MaxGridWidth, h \in 1..MaxGridHeight }
    /\ pc = "grid"
    /\ points = << >>
    /\ threads = << >>
    /\ joined = 0
    /\ results = << >>
    /\ drawing = << >>
    /\ canvas = << >>
    /\ zooms = 0
    /\ call = NoCall
    /\ cp_coord = VirtualPoint(FZero, FZero, << 0, 0, 0 >>)
    /\ cp_loop = LoopInit(cp_coord)
    /\ cp_exceeded = {}
    /\ cp_result = Pending

GridZoom(x, y) ==
    /\ pc = "grid"
    /\ zooms < MaxGridZooms
    /\ mandelbrot' = zoom(mandelbrot, x, y, ZOOM_RATIO)
    /\ call' = [x |-> x, y |-> y, ratio |-> ZOOM_RATIO]
    /\ zooms' = zooms + 1
    /\ UNCHANGED << pc, passVars, drawing, canvas, pointVars >>

GridCall ==
    /\ pc = "grid"
    /\ points' = draw_mandelbrot_init(mandelbrot)
    /\ pc' = "grid_done"
    /\ UNCHANGED << mandelbrot, threads, joined, results, drawing, canvas,
                    zooms, call, pointVars >>

NextGrid ==
    \/ GridZoom(0, 0)
    \/ GridZoom(mandelbrot.width, mandelbrot.height \div 2)
    \/ GridCall

SpecGrid == InitGrid /\ [][NextGrid]_vars

(***************************************************************************)
(* calc_mandelbrot_point on its own, one iteration of its loop at a time.  *)
(***************************************************************************)
\* n / 2^k, exact
Dyadic(n, k) == FDiv(FFromInt(n), FPow2(k))

\* points whose loop is left at count 0, 1, 3, 25, 26, 27, 100, 253 and 254,
\* and points whose loop runs to the end of the range
SamplePoints ==
    { VirtualPoint(Dyadic(p[1], p[3]), Dyadic(p[2], p[3]), << 0, 0, 0 >>) :
      p \in { << 2, 2, 0 >>, << 1, 0, 0 >>, << 1, 0, 1 >>, << -45, 1, 5 >>,
              << -6, 21, 5 >>, << 3, 9, 4 >>, << -42, 29, 6 >>,
              << 97, 70, 8 >>, << -63, 17, 6 >>, << 0, 0, 0 >>,
              << -1, 0, 0 >> } }

InitPoint ==
    /\ mandelbrot = new
    /\ pc = "point"
    /\ points = << >>
    /\ threads = << >>
    /\ joined = 0
    /\ results = << >>
    /\ drawing = << >>
    /\ canvas = << >>
    /\ zooms = 0
    /\ call = NoCall
    /\ cp_coord \in SamplePoints
    /\ cp_loop = LoopInit(cp_coord)
    /\ cp_exceeded = {}
    /\ cp_result = Pending

\* lines 49 to 58 once; cp_exceeded records the verdict of line 55 on its own
PointStep ==
    /\ pc = "point"
    /\ ~LoopDone(cp_loop)
    /\ cp_loop' = LoopStep(cp_coord, cp_loop)
    /\ cp_exceeded' =
          IF DistExceedsEscape(NextX(cp_coord, cp_loop.prev_x, cp_loop.prev_y),
                               NextY(cp_coord, cp_loop.prev_x, cp_loop.prev_y))
          THEN cp_exceeded \cup {cp_loop.count} ELSE cp_exceeded
    /\ UNCHANGED << mandelbrot, pc, passVars, drawing, canvas, zooms, call,
                    cp_coord, cp_result >>

\* lines 59 to 63
PointReturn ==
    /\ pc = "point"
    /\ LoopDone(cp_loop)
    /\ cp_result' = Classify(cp_coord, cp_loop.escape_count)
    /\ pc' = "point_done"
    /\ UNCHANGED << mandelbrot, passVars, drawing, canvas, zooms, call,
                    cp_coord, cp_loop, cp_exceeded >>

NextPoint == PointStep \/ PointReturn

SpecPoint == InitPoint /\ [][NextPoint]_vars

(***************************************************************************)
(* The claims.                                                             *)
(***************************************************************************)

\* the escape index of the call under way: the first count at which the
\* distance exceeded FRACTAL_ESCAPE, or 254 when there was none
EscapeIndex ==
    IF cp_exceeded = {} THEN 254
    ELSE CHOOSE i \in cp_exceeded : \A j \in cp_exceeded : i <= j

\* C2: calc_mandelbrot_point classifies a point by its escape index i: for
\* 0 < i < 254 it returns the point's coordinates with the color
\* (min(255, 10 i), i, i), for i = 0 or i >= 254 (a point that never escapes
\* included) it returns None; and the function taken as a whole returns what
\* its loop taken step by step does.
C2_EscapeClassification ==
    pc = "point_done" =>
        /\ (0 < EscapeIndex /\ EscapeIndex < 254) =>
              cp_result = Some(VirtualPoint(cp_coord[1], cp_coord[2],
                                 << Min(255, EscapeIndex * 10), EscapeIndex,
                                    EscapeIndex >>))
        /\ (EscapeIndex = 0 \/ EscapeIndex >= 254) => cp_result = None
        /\ cp_result = calc_mandelbrot_point(cp_coord)

\* a point that escaped at count 253 came back with the saturated red 255
C2_Witness ==
    /\ pc = "point_done"
    /\ EscapeIndex = 253
    /\ cp_result # None
    /\ cp_result[2][3] = << 255, 253, 253 >>

\* calc_mandelbrot_point run over a sequence from its first point to its
\* last, one point after the other: the survivors in that order
RECURSIVE Survivors(_)
Survivors(seq) ==
    IF seq = << >> THEN << >>
    ELSE (IF CalcPoint(Head(seq)) = None THEN << >>
          ELSE << CalcPoint(Head(seq))[2] >>) \o Survivors(Tail(seq))

\* how often v occurs in seq
Count(seq, v) == Cardinality({ i \in DOMAIN seq : seq[i] = v })

\* the length of a slice, and the points that lie in some slice
SliceLen == Len(points) \div 10
Evaluated == SubSeq(points, 1, 10 * SliceLen)

\* C1: with W = 10, worker i (from 0) is given exactly the points of the
\* index range [(len/W) i, (len/W) (i + 1)), so the slices are contiguous,
\* disjoint and of equal size and leave out exactly the last len mod W points;
\* the aggregated result is, as a multiset, the survivors of
\* calc_mandelbrot_point run sequentially over the first W (len/W) points.
C1_PartitionAndMultiset ==
    /\ \A k \in 1..Len(threads) :
          /\ Len(threads[k].subset) = SliceLen
          /\ \A j \in 1..SliceLen :
                threads[k].subset[j] = points[SliceLen * (k - 1) + j]
    /\ pc = "transform" =>
          /\ Len(threads) = 10
          /\ \A v \in Range(results) \cup Range(Survivors(Evaluated)) :
                Count(results, v) = Count(Survivors(Evaluated), v)

\* a run over 19 points has returned: one point per worker, survivors among
\* them, and a point that would have survived among the nine left out
C1_Witness ==
    /\ pc = "transform"
    /\ Len(points) = 19
    /\ results # << >>
    /\ \E i \in (10 * SliceLen + 1)..Len(points) : CalcPoint(points[i]) # None

RECURSIVE Concat(_)
Concat(seqs) ==
    IF seqs = << >> THEN << >> ELSE Head(seqs) \o Concat(Tail(seqs))

\* C8: whatever the order in which the workers finish, the merged result is
\* the concatenation of the workers' results in slice order, each slice's
\* survivors in the order of its input; so what draw_mandelbrot_run returns
\* is determined by its input alone.
C8_SliceOrder ==
    /\ pc \in {"join", "transform"} =>
          results = Concat([k \in 1..joined |-> Survivors(threads[k].subset)])
    /\ pc = "transform" => results = Survivors(Evaluated)

\* the last worker has finished before the one before it, and survivors of
\* two different slices have already been merged
C8_Witness ==
    /\ pc = "join"
    /\ threads[10].state = "finished"
    /\ threads[9].state = "running"
    /\ Len(results) >= 2
    /\ \E k \in 1..joined : threads[k].result # << >> /\ threads[k].result # results

\* some worker of the pass under way has been spawned and has not finished
Running == \E k \in 1..Len(threads) : threads[k].state = "running"

\* C9: a render pass spawns exactly 10 workers and draw_mandelbrot_run
\* returns only when all of them have finished: from the return to the next
\* pass no worker is running, and nothing has been handed on (no drawing
\* built, no point drawn on the window) while a worker is running.
C9_JoinBarrier ==
    /\ Len(threads) <= 10
    /\ pc \in {"join", "transform", "draw", "events", "exit"} =>
          Len(threads) = 10
    /\ pc \in {"init", "transform", "draw", "events", "exit"} => ~Running
    /\ Running => drawing = << >> /\ canvas = << >>

\* after a zoom the pass has returned and its points are on the window
C9_Witness ==
    /\ pc = "events"
    /\ zooms = 1
    /\ Len(threads) = 10
    /\ canvas # << >>

\* C10: zoom and render never overlap.  The viewport changes only in the
\* handling of a mouse press, when no worker is running, and that step
\* starts no worker and computes no point; a render pass leaves the viewport
\* alone; and whenever main is ready for the next event, a full pass over the
\* viewport as it is now has been computed and drawn.
C10_ZoomRenderSequencing ==
    /\ [](pc = "events" =>
            (/\ points = draw_mandelbrot_init(mandelbrot)
             /\ results = Survivors(Evaluated)
             /\ drawing = Transform(mandelbrot, results)
             /\ canvas = drawing))
    /\ [][/\ (mandelbrot' # mandelbrot) =>
                (/\ pc = "events"
                 /\ ~Running
                 /\ mandelbrot' = zoom(mandelbrot, call'.x, call'.y, ZOOM_RATIO)
                 /\ pc' = "init"
                 /\ threads' = << >>
                 /\ points' = << >>
                 /\ results' = << >>
                 /\ drawing' = << >>
                 /\ canvas' = << >>)
          /\ (pc # "events") => (mandelbrot' = mandelbrot)
          /\ Running => (mandelbrot' = mandelbrot)]_vars

\* two zooms have been handled and the pass over the second viewport is on
\* the window
C10_Witness ==
    /\ pc = "events"
    /\ zooms = 2
    /\ canvas # << >>
    /\ canvas = Transform(mandelbrot, results)

ViewportOK(self) ==
    /\ FLt(self.xmin, self.xmax)
    /\ FLt(self.ymin, self.ymax)
    /\ self.width > 0
    /\ self.height > 0

\* C4: in every reachable state xmin < xmax, ymin < ymax, width > 0 and
\* height > 0, so the transform never divides by a zero extent; only a call
\* of zoom changes the viewport, and width and height never change.
C4_ViewportInvariant ==
    /\ [](/\ ViewportOK(mandelbrot)
          /\ ~FIsZero(FSub(mandelbrot.xmax, mandelbrot.xmin))
          /\ ~FIsZero(FSub(mandelbrot.ymax, mandelbrot.ymin)))
    /\ [][/\ mandelbrot'.width = mandelbrot.width
          /\ mandelbrot'.height = mandelbrot.height
          /\ (mandelbrot' # mandelbrot) =>
                (/\ zooms' = zooms + 1
                 /\ mandelbrot' = zoom(mandelbrot, call'.x, call'.y, call'.ratio))]_vars

\* the transform is about to divide by the extents of a viewport two zooms in
C4_Witness ==
    /\ pc = "transform"
    /\ zooms = 2
    /\ results # << >>
    /\ mandelbrot # Start

\* C6: once a worker of a pass has panicked, draw_mandelbrot_run does not
\* return (no partial result is handed on), no drawing is built and no point
\* of the pass reaches the window; the panic of line 119 ends the program.
C6_PanicIsFatal ==
    /\ [](Panicked # {} =>
            (/\ pc \in {"spawn", "join", "panicked"}
             /\ drawing = << >>
             /\ canvas = << >>))
    /\ [][pc # "panicked"]_vars

\* the join loop had merged survivors of earlier workers when it met the
\* panicked one
C6_Witness ==
    /\ pc = "panicked"
    /\ joined >= 5
    /\ results # << >>

(***************************************************************************)
(* Exact arithmetic on the values of f64s (no rounding), to state how far  *)
(* a computed value is from the real number a claim names.                 *)
(***************************************************************************)
XAdd(a, b) ==
    IF FIsZero(a) THEN b
    ELSE IF FIsZero(b) THEN a
    ELSE LET e  == IF a.exp < b.exp THEN a.exp ELSE b.exp
             ma == BigShl(a.man, a.exp - e)
             mb == BigShl(b.man, b.exp - e)
             c  == BigCmp(ma, mb)
         IN  IF a.neg = b.neg THEN FCanon(a.neg, BigAdd(ma, mb), e)
             ELSE IF c = 0 THEN FZero
             ELSE IF c > 0 THEN FCanon(a.neg, BigSub(ma, mb), e)
             ELSE FCanon(b.neg, BigSub(mb, ma), e)

XSub(a, b) == XAdd(a, FNeg(b))

XMul(a, b) ==
    IF FIsZero(a) \/ FIsZero(b) THEN FZero
    ELSE FCanon(a.neg # b.neg, BigMul(a.man, b.man), a.exp + b.exp)

XAbs(a) == [a EXCEPT !.neg = FALSE]

XMax(a, b) == IF FLt(a, b) THEN b ELSE a

\* n times the distance between the new centre (lo2 + hi2) / 2 and the
\* clicked coordinate lo + (p / n) (hi - lo), doubled
CentreErr(lo, hi, lo2, hi2, p, n) ==
    XAbs(XSub(XMul(FFromInt(n), XAdd(lo2, hi2)),
              XAdd(XMul(FFromInt(2 * n), lo),
                   XMul(FFromInt(2 * p), XSub(hi, lo)))))

\* the distance between the new extent hi2 - lo2 and ratio (hi - lo)
ExtentErr(lo, hi, lo2, hi2, ratio) ==
    XAbs(XSub(XSub(hi2, lo2), XMul(ratio, XSub(hi, lo))))

\* 2^-49 times the larger magnitude of the old bounds
Tol(lo, hi) == XMul(FPow2(-49), XMax(XAbs(lo), XAbs(hi)))

\* a step that is a call of zoom
ZoomStep == zooms' = zooms + 1

\* C3 as stated: after zoom(px, py, ratio) the centre is exactly the clicked
\* virtual coordinate and the extent exactly ratio times the old extent, on
\* both axes.
C3_ExactRecentre ==
    [][ZoomStep =>
         /\ FIsZero(CentreErr(mandelbrot.xmin, mandelbrot.xmax, mandelbrot'.xmin,
                              mandelbrot'.xmax, call'.x, mandelbrot.width))
         /\ FIsZero(CentreErr(mandelbrot.ymin, mandelbrot.ymax, mandelbrot'.ymin,
                              mandelbrot'.ymax, call'.y, mandelbrot.height))
         /\ FIsZero(ExtentErr(mandelbrot.xmin, mandelbrot.xmax, mandelbrot'.xmin,
                              mandelbrot'.xmax, call'.ratio))
         /\ FIsZero(ExtentErr(mandelbrot.ymin, mandelbrot.ymax, mandelbrot'.ymin,
                              mandelbrot'.ymax, call'.ratio))]_vars

\* C3, amended: after zoom(px, py, ratio) with 0 <= px <= width,
\* 0 <= py <= height and |ratio| <= 2, the centre (xmin + xmax) / 2 differs
\* from xminOld + (px / width) (xmaxOld - xminOld), and the extent
\* xmax - xmin from ratio (xmaxOld - xminOld), by at most
\* 2^-49 max(|xminOld|, |xmaxOld|) (the rounding of f64), likewise for y; and
\* zoom(width / 2, height / 2, 0.8) on the first viewport [-2, 2] x [-2, 2]
\* leaves the centre exactly unchanged and makes each extent exactly 0.8
\* times the old one.
C3_RecentreUpToRounding ==
    [][ZoomStep =>
         /\ FLe(CentreErr(mandelbrot.xmin, mandelbrot.xmax, mandelbrot'.xmin,
                          mandelbrot'.xmax, call'.x, mandelbrot.width),
                XMul(FFromInt(2 * mandelbrot.width),
                     Tol(mandelbrot.xmin, mandelbrot.xmax)))
         /\ FLe(CentreErr(mandelbrot.ymin, mandelbrot.ymax, mandelbrot'.ymin,
                          mandelbrot'.ymax, call'.y, mandelbrot.height),
                XMul(FFromInt(2 * mandelbrot.height),
                     Tol(mandelbrot.ymin, mandelbrot.ymax)))
         /\ FLe(ExtentErr(mandelbrot.xmin, mandelbrot.xmax, mandelbrot'.xmin,
                          mandelbrot'.xmax, call'.ratio),
                Tol(mandelbrot.xmin, mandelbrot.xmax))
         /\ FLe(ExtentErr(mandelbrot.ymin, mandelbrot.ymax, mandelbrot'.ymin,
                          mandelbrot'.ymax, call'.ratio),
                Tol(mandelbrot.ymin, mandelbrot.ymax))
         /\ (/\ mandelbrot = new
             /\ call'.x = mandelbrot.width \div 2
             /\ call'.y = mandelbrot.height \div 2
             /\ call'.ratio = ZOOM_RATIO) =>
               (/\ XAdd(mandelbrot'.xmin, mandelbrot'.xmax) = FZero
                /\ XAdd(mandelbrot'.ymin, mandelbrot'.ymax) = FZero
                /\ XSub(mandelbrot'.xmax, mandelbrot'.xmin)
                      = XMul(ZOOM_RATIO, FFromInt(4))
                /\ XSub(mandelbrot'.ymax, mandelbrot'.ymin)
                      = XMul(ZOOM_RATIO, FFromInt(4)))]_vars

\* zoom(123, 700, 0.8) on the first viewport has been called, and the new
\* centre is not exactly the clicked coordinate
C3_Witness ==
    /\ zooms = 1
    /\ call = [x |-> 123, y |-> 700, ratio |-> ZOOM_RATIO]
    /\ ~FIsZero(CentreErr(new.xmin, new.xmax, mandelbrot.xmin, mandelbrot.xmax,
                          call.x, new.width))

\* C5: a call of zoom whose ratio is not positive, or whose result would
\* have a zero or negative extent, leaves xmin, xmax, ymin and ymax as
\* they were.
C5_InvalidZoomRejected ==
    [][(/\ ZoomStep
        /\ \/ FSign(call'.ratio) <= 0
           \/ ~ViewportOK(zoom(mandelbrot, call'.x, call'.y, call'.ratio))) =>
         (mandelbrot' = mandelbrot)]_vars

\* the verdict of line 86 or 88 on the value after v
Continues(v, delta, hi) == FLe(FAdd(v, delta), hi)

DeltaX(self) == FDiv(FSub(self.xmax, self.xmin), FFromInt(self.width))
DeltaY(self) == FDiv(FSub(self.ymax, self.ymin), FFromInt(self.height))

\* the points are in column-major order with steps DeltaX and DeltaY: the
\* first is (xmin, ymin); after (x, y) comes (x, y + DeltaY) while that is
\* within ymax, else (x + DeltaX, ymin); after the last neither is within
GridInOrder ==
    /\ points # << >>
    /\ points[1] = VirtualPoint(mandelbrot.xmin, mandelbrot.ymin, << 0, 0, 0 >>)
    /\ \A k \in 1..(Len(points) - 1) :
          IF Continues(points[k][2], DeltaY(mandelbrot), mandelbrot.ymax)
          THEN points[k + 1] =
                  VirtualPoint(points[k][1],
                               FAdd(points[k][2], DeltaY(mandelbrot)),
                               << 0, 0, 0 >>)
          ELSE points[k + 1] =
                  VirtualPoint(FAdd(points[k][1], DeltaX(mandelbrot)),
                               mandelbrot.ymin, << 0, 0, 0 >>)
    /\ ~Continues(points[Len(points)][2], DeltaY(mandelbrot), mandelbrot.ymax)
    /\ ~Continues(points[Len(points)][1], DeltaX(mandelbrot), mandelbrot.xmax)

GridInBounds ==
    \A k \in 1..Len(points) :
        /\ FLe(mandelbrot.xmin, points[k][1]) /\ FLe(points[k][1], mandelbrot.xmax)
        /\ FLe(mandelbrot.ymin, points[k][2]) /\ FLe(points[k][2], mandelbrot.ymax)

Larger(a, b) == IF a < b THEN b ELSE a

GridCols == Cardinality({ points[k][1] : k \in 1..Len(points) })
GridRows == Cardinality({ points[k][2] : k \in 1..Len(points) })

\* C7 as stated: column-major order, every point within the viewport, and a
\* number of points that is width * height or up to one row or column short
\* of it (for the first grid: of 640000).
C7_CountNotAboveWidthTimesHeight ==
    pc = "grid_done" =>
          /\ GridInOrder
          /\ GridInBounds
          /\ Len(points) <= mandelbrot.width * mandelbrot.height
          /\ Len(points) >= mandelbrot.width * mandelbrot.height
                              - Larger(mandelbrot.width, mandelbrot.height)
          /\ InitialGridCount <= 640000
          /\ InitialGridCount >= 640000 - 800

\* C7, amended: over a viewport with xmin < xmax, ymin < ymax whose steps
\* are far above the resolution of f64 (as within a few zooms of the first
\* viewport), draw_mandelbrot_init emits the points in column-major order
\* with steps (xmax - xmin) / width and (ymax - ymin) / height, every point
\* within the viewport, and their number is cols * rows with cols either
\* width or width + 1 and rows either height or height + 1 (both ends of
\* each axis are included unless rounding pushes the last value past the
\* end); for [-2, 2] x [-2, 2] at 800 x 800 it is 801 * 801 = 641601.
C7_GridOrderBoundsCount ==
    pc = "grid_done" =>
          /\ ViewportOK(mandelbrot)
          /\ GridInOrder
          /\ GridInBounds
          /\ Len(points) = GridCols * GridRows
          /\ Len(points) = GridCount(mandelbrot)
          /\ GridCols \in {mandelbrot.width, mandelbrot.width + 1}
          /\ GridRows \in {mandelbrot.height, mandelbrot.height + 1}
          /\ InitialGridCount = 801 * 801

\* a grid after a zoom whose last column was pushed past xmax by rounding
\* and whose rows include both ends
C7_Witness ==
    /\ pc = "grid_done"
    /\ zooms >= 1
    /\ GridCols = mandelbrot.width
    /\ GridRows = mandelbrot.height + 1
    /\ Len(points) > mandelbrot.height + 1

====
